---- MODULE Spec2Model ----
(***************************************************************************)
(* fix_profile.py: a linear script that reads MotoRev/Views/ProfileView.swift *)
(* in text mode, applies two literal str.replace substitutions, writes the  *)
(* text back to the same path in text mode and prints a confirmation.       *)
(*                                                                           *)
(* Text is modelled character by character: a text is a sequence of          *)
(* one-character strings, so that occurrences, overlaps and the joins       *)
(* between a replacement and its surroundings are computed, not assumed.    *)
(***************************************************************************)
EXTENDS Integers, Sequences, FiniteSets, TLC

\* Number of fragments an initial file content is assembled from.
MaxPieces == 3

\* Number of times the script is run in succession on the same file.
MaxRuns == 2

(***************************************************************************)
(* The string literals of the script.                                        *)
(***************************************************************************)
\* line 8, the first target: receiveCompletion: { [weak self] (completion: Subscribers.Completion<e>) in
OLD1 ==
  <<"r", "e", "c", "e", "i", "v", "e", "C", "o", "m", "p", "l", "e", "t", "i",
    "o", "n", ":", " ", "{", " ", "[", "w", "e", "a", "k", " ", "s", "e", "l",
    "f", "]", " ", "(", "c", "o", "m", "p", "l", "e", "t", "i", "o", "n", ":",
    " ", "S", "u", "b", "s", "c", "r", "i", "b", "e", "r", "s", ".", "C", "o",
    "m", "p", "l", "e", "t", "i", "o", "n", "<", "e", ">", ")", " ", "i", "n" >>

\* line 13, the second target: receiveValue: { [weak self] (response: UpdateProfileResponse) in
OLD2 ==
  <<"r", "e", "c", "e", "i", "v", "e", "V", "a", "l", "u", "e", ":", " ", "{",
    " ", "[", "w", "e", "a", "k", " ", "s", "e", "l", "f", "]", " ", "(", "r",
    "e", "s", "p", "o", "n", "s", "e", ":", " ", "U", "p", "d", "a", "t", "e",
    "P", "r", "o", "f", "i", "l", "e", "R", "e", "s", "p", "o", "n", "s", "e",
    ")", " ", "i", "n" >>

\* The second target pasted where the first replacement text belongs.
NEW1Miscopied == OLD2

\* line 9, the first replacement: receiveCompletion: { [weak self] completion in
NEW1 ==
  <<"r", "e", "c", "e", "i", "v", "e", "C", "o", "m", "p", "l", "e", "t", "i",
    "o", "n", ":", " ", "{", " ", "[", "w", "e", "a", "k", " ", "s", "e", "l",
    "f", "]", " ", "c", "o", "m", "p", "l", "e", "t", "i", "o", "n", " ", "i",
    "n" >>

\* line 14, the second replacement: receiveValue: { [weak self] response in
NEW2 ==
  <<"r", "e", "c", "e", "i", "v", "e", "V", "a", "l", "u", "e", ":", " ", "{",
    " ", "[", "w", "e", "a", "k", " ", "s", "e", "l", "f", "]", " ", "r", "e",
    "s", "p", "o", "n", "s", "e", " ", "i", "n" >>

\* The first target up to its parameter list: receiveCompletion: { [weak self] 
HEAD1 ==
  <<"r", "e", "c", "e", "i", "v", "e", "C", "o", "m", "p", "l", "e", "t", "i",
    "o", "n", ":", " ", "{", " ", "[", "w", "e", "a", "k", " ", "s", "e", "l",
    "f", "]", " " >>

\* The rest of the first target: (completion: Subscribers.Completion<e>) in
TAIL1 ==
  <<"(", "c", "o", "m", "p", "l", "e", "t", "i", "o", "n", ":", " ", "S", "u",
    "b", "s", "c", "r", "i", "b", "e", "r", "s", ".", "C", "o", "m", "p", "l",
    "e", "t", "i", "o", "n", "<", "e", ">", ")", " ", "i", "n" >>

\* print("Fixed ProfileView.swift compilation errors")
MSG == "Fixed ProfileView.swift compilation errors"

CR == "\r"
LF == "\n"

(***************************************************************************)
(* str.replace(old, new): every non-overlapping occurrence of old, found    *)
(* left to right, is replaced by new; the scan resumes after the occurrence *)
(* and never looks into the text it has just inserted.                      *)
(***************************************************************************)
MatchAt(s, i, old) ==
  /\ i + Len(old) - 1 <= Len(s)
  /\ s[i] = old[1]
  /\ SubSeq(s, i, i + Len(old) - 1) = old

\* str.find(old, i): the least index >= i at which old occurs, 0 if none.
Find(s, old, i) ==
  LET hits == { k \in i..(Len(s) - Len(old) + 1) : MatchAt(s, k, old) } IN
    IF hits = {} THEN 0
    ELSE CHOOSE k \in hits : \A h \in hits : k <= h

RECURSIVE ReplaceFrom(_, _, _, _)
ReplaceFrom(s, i, old, new) ==
  LET j == Find(s, old, i) IN
    IF j = 0 THEN SubSeq(s, i, Len(s))
    ELSE SubSeq(s, i, j - 1) \o new \o ReplaceFrom(s, j + Len(old), old, new)

\* str.replace(old, new, 1): the mistake of replacing the first occurrence only.
ReplaceFirstOnly(s, old, new) ==
  LET j == Find(s, old, 1) IN
    IF j = 0 THEN s
    ELSE SubSeq(s, 1, j - 1) \o new \o SubSeq(s, j + Len(old), Len(s))

Replace(s, old, new) == ReplaceFrom(s, 1, old, new)

Contains(s, old) == Find(s, old, 1) > 0

(***************************************************************************)
(* Text-mode file objects (open with the default newline=None).             *)
(* Reading translates "\r\n" and a lone "\r" to "\n"; writing translates    *)
(* each "\n" to the platform's line separator.                              *)
(***************************************************************************)
RECURSIVE ReadFrom(_, _)
ReadFrom(data, i) ==
  LET j == Find(data, <<CR>>, i) IN
    IF j = 0 THEN SubSeq(data, i, Len(data))
    ELSE SubSeq(data, i, j - 1) \o <<LF>> \o
         ReadFrom(data, IF j < Len(data) /\ data[j + 1] = LF THEN j + 2
                                                               ELSE j + 1)

ReadText(data) == ReadFrom(data, 1)

WriteText(text, sep) == Replace(text, <<LF>>, sep)

\* os.linesep of the platforms Python runs on.
LineSeps == { <<LF>>, <<CR, LF>> }

(***************************************************************************)
(* Initial file contents: every concatenation of at most MaxPieces          *)
(* fragments. The fragments give whole occurrences of both targets, an      *)
(* occurrence assembled from two halves, the replacement texts already      *)
(* present, and the line-ending characters.                                 *)
(***************************************************************************)
Fragments == { OLD1, OLD2, NEW1, NEW2, HEAD1, TAIL1, <<CR>>, <<LF>> }

RECURSIVE Concats(_)
Concats(n) ==
  IF n = 0 THEN { <<>> }
  ELSE LET shorter == Concats(n - 1) IN
         shorter \cup { c \o f : c \in shorter, f \in Fragments }

Contents == Concats(MaxPieces)

(***************************************************************************)
(* State.                                                                    *)
(***************************************************************************)
VARIABLES
  exists,    \* the target path names a file
  file,      \* the characters stored in the file
  linesep,   \* os.linesep of the platform the script runs on
  pc,        \* position of the script
  content,   \* the script's variable `content`
  handles,   \* the file objects currently open
  out,       \* what has been printed to standard output
  trace,     \* the file and string operations of the current run, in order
  run,       \* which run of the script this is
  orig,      \* history: the file's characters when the current run started
  existed,   \* history: whether the file existed when the current run started
  changed    \* history: whether the previous run changed the file

vars == << exists, file, linesep, pc, content, handles, out, trace, run,
           orig, existed, changed >>

Init ==
  /\ exists \in BOOLEAN
  /\ file \in (IF exists THEN Contents ELSE { <<>> })
  /\ linesep \in LineSeps
  /\ pc = "start"
  /\ content = <<>>
  /\ handles = {}
  /\ out = <<>>
  /\ trace = <<>>
  /\ run = 1
  /\ orig = file
  /\ existed = exists
  /\ changed = FALSE

\* An unhandled exception: the with statement closes the file object, the
\* interpreter prints a traceback and exits.
Raise ==
  /\ pc' = "failed"
  /\ handles' = {}

\* line 3: open(path, 'r') when open() is mistaken to create a missing file.
OpenReadCreating ==
  /\ pc = "start"
  /\ pc' = "r_open"
  /\ exists' = TRUE
  /\ handles' = handles \cup {"r"}
  /\ trace' = Append(trace, "open_r")
  /\ UNCHANGED << file, linesep, content, out, run, orig, existed, changed >>

\* line 3: open(path, 'r'). Fails if the path does not exist (and may fail
\* when it does: permissions).
OpenRead ==
  /\ pc = "start"
  /\ \/ /\ exists
        /\ pc' = "r_open"
        /\ handles' = handles \cup {"r"}
        /\ trace' = Append(trace, "open_r")
     \/ /\ Raise
        /\ UNCHANGED trace
  /\ UNCHANGED << exists, file, linesep, content, out, run, orig, existed, changed >>

\* line 4: content = f.read(). May fail (I/O error, undecodable bytes).
ReadAll ==
  /\ pc = "r_open"
  /\ \/ /\ content' = ReadText(file)
        /\ pc' = "read"
        /\ trace' = Append(trace, "read")
        /\ UNCHANGED handles
     \/ /\ Raise
        /\ trace' = Append(trace, "close_r")
        /\ UNCHANGED content
  /\ UNCHANGED << exists, file, linesep, out, run, orig, existed, changed >>

\* line 4, leaving the with block without closing the file object.
CloseReadLeaking ==
  /\ pc = "read"
  /\ pc' = "r_closed"
  /\ trace' = Append(trace, "close_r")
  /\ UNCHANGED << exists, file, linesep, content, handles, out, run, orig,
                  existed, changed >>

\* line 4, end of the with block: the read file object is closed.
CloseRead ==
  /\ pc = "read"
  /\ pc' = "r_closed"
  /\ handles' = handles \ {"r"}
  /\ trace' = Append(trace, "close_r")
  /\ UNCHANGED << exists, file, linesep, content, out, run, orig, existed, changed >>

\* lines 7-10: content = content.replace(OLD1, NEW1)
Substitute1 ==
  /\ pc = "r_closed"
  /\ content' = Replace(content, OLD1, NEW1)
  /\ pc' = "sub1"
  /\ trace' = Append(trace, "replace1")
  /\ UNCHANGED << exists, file, linesep, handles, out, run, orig, existed, changed >>

\* lines 12-15: content = content.replace(OLD2, NEW2)
Substitute2 ==
  /\ pc = "sub1"
  /\ content' = Replace(content, OLD2, NEW2)
  /\ pc' = "sub2"
  /\ trace' = Append(trace, "replace2")
  /\ UNCHANGED << exists, file, linesep, handles, out, run, orig, existed, changed >>

\* line 17 with a mode that does not truncate (open(path, 'r+')).
OpenWriteKeeping ==
  /\ pc = "sub2"
  /\ \/ /\ exists' = TRUE
        /\ pc' = "w_open"
        /\ handles' = handles \cup {"w"}
        /\ trace' = Append(trace, "open_w")
        /\ UNCHANGED file
     \/ /\ Raise
        /\ UNCHANGED << exists, file, trace >>
  /\ UNCHANGED << linesep, content, out, run, orig, existed, changed >>

\* line 17: open(path, 'w') truncates the file (and would create it). May
\* fail (permissions), in which case the file is untouched.
OpenWrite ==
  /\ pc = "sub2"
  /\ \/ /\ exists' = TRUE
        /\ file' = <<>>
        /\ pc' = "w_open"
        /\ handles' = handles \cup {"w"}
        /\ trace' = Append(trace, "open_w")
     \/ /\ Raise
        /\ UNCHANGED << exists, file, trace >>
  /\ UNCHANGED << linesep, content, out, run, orig, existed, changed >>

\* What a failed write can leave in the truncated file: nothing, or a prefix.
PartialWrites(data) == { SubSeq(data, 1, n) : n \in {0, Len(data) \div 2} }

\* line 18: f.write(content). May fail part-way (disk full, I/O error).
WriteAll ==
  /\ pc = "w_open"
  /\ \/ /\ file' = WriteText(content, linesep)
        /\ pc' = "written"
        /\ trace' = Append(trace, "write")
        /\ UNCHANGED handles
     \/ /\ file' \in PartialWrites(WriteText(content, linesep))
        /\ Raise
        /\ trace' = Append(trace, "close_w")
  /\ UNCHANGED << exists, linesep, content, out, run, orig, existed, changed >>

\* line 18, end of the with block: the write file object is closed.
CloseWrite ==
  /\ pc = "written"
  /\ pc' = "w_closed"
  /\ handles' = handles \ {"w"}
  /\ trace' = Append(trace, "close_w")
  /\ UNCHANGED << exists, file, linesep, content, out, run, orig, existed, changed >>

\* line 20 reached also from a failed run (a print in a finally block).
PrintMessageAlways ==
  /\ pc \in {"w_closed", "failed"}
  /\ Len(out) < run
  /\ out' = Append(out, MSG)
  /\ pc' = IF pc = "failed" THEN "failed" ELSE "done"
  /\ UNCHANGED << exists, file, linesep, content, handles, trace, run, orig,
                  existed, changed >>

\* line 20: print(MSG), the last statement; the script then exits.
PrintMessage ==
  /\ pc = "w_closed"
  /\ out' = Append(out, MSG)
  /\ pc' = "done"
  /\ UNCHANGED << exists, file, linesep, content, handles, trace, run, orig,
                  existed, changed >>

\* One statement of the script.
Step ==
  \/ OpenRead
  \/ ReadAll
  \/ CloseRead
  \/ Substitute1
  \/ Substitute2
  \/ OpenWrite
  \/ WriteAll
  \/ CloseWrite
  \/ PrintMessage

\* The script is run again on the file the previous run left.
RunAgain ==
  /\ pc = "done"
  /\ run < MaxRuns
  /\ run' = run + 1
  /\ pc' = "start"
  /\ content' = <<>>
  /\ trace' = <<>>
  /\ orig' = file
  /\ existed' = exists
  /\ changed' = (file # orig)
  /\ UNCHANGED << exists, file, linesep, handles, out >>

Next == Step \/ RunAgain

Spec == Init /\ [][Next]_vars

(***************************************************************************)
(* The script as a function of the stored characters (lines 3-18).         *)
(***************************************************************************)
Substituted(text) == Replace(Replace(text, OLD1, NEW1), OLD2, NEW2)

Output(data, sep) == WriteText(Substituted(ReadText(data)), sep)

(***************************************************************************)
(* Vocabulary of the properties.                                            *)
(***************************************************************************)
IsPrefix(p, s) == Len(p) <= Len(s) /\ SubSeq(s, 1, Len(p)) = p

\* The least of two indices returned by Find, where 0 means "none".
Nearest(j1, j2) ==
  IF j1 = 0 THEN j2 ELSE IF j2 = 0 THEN j1 ELSE IF j1 < j2 THEN j1 ELSE j2

\* s from index i on, with each occurrence of either target replaced by its
\* replacement in one pass and every other character copied.
RECURSIVE PatchedFrom(_, _)
PatchedFrom(s, i) ==
  LET j == Nearest(Find(s, OLD1, i), Find(s, OLD2, i)) IN
    IF j = 0 THEN SubSeq(s, i, Len(s))
    ELSE IF MatchAt(s, j, OLD1)
      THEN SubSeq(s, i, j - 1) \o NEW1 \o PatchedFrom(s, j + Len(OLD1))
      ELSE SubSeq(s, i, j - 1) \o NEW2 \o PatchedFrom(s, j + Len(OLD2))

Patched(s) == PatchedFrom(s, 1)

\* Some placement of a over b with at least one character in common agrees
\* with b on every common character: text around b can complete an
\* occurrence of a that takes in part of b.
CanOverlap(a, b) ==
  \E d \in (1 - Len(a))..(Len(b) - 1) :
    \A i \in 1..Len(b) :
      (i - d >= 1 /\ i - d <= Len(a)) => a[i - d] = b[i]

\* The operations of a run without a fault, in order.
FullTrace ==
  << "open_r", "read", "close_r", "replace1", "replace2", "open_w", "write",
     "close_w" >>

\* The operations of a run that ends in a fault.
FailedTraces ==
  { <<>>,
    << "open_r", "close_r" >>,
    SubSeq(FullTrace, 1, 5),
    SubSeq(FullTrace, 1, 6) \o << "close_w" >> }

Succeeded == pc = "done"

NoTarget(s) == ~Contains(s, OLD1) /\ ~Contains(s, OLD2)

(***************************************************************************)
(* C1. When the file holds the first target, a successful run leaves the    *)
(* file with each occurrence of it replaced by the first replacement and    *)
(* every other character (occurrences of the second target aside, which    *)
(* become the second replacement) unchanged and in the same order.          *)
(* Violated: text mode rewrites the line endings outside the occurrences.   *)
(***************************************************************************)
FirstTargetReplacedRestUnchanged ==
  (Succeeded /\ Contains(orig, OLD1)) => file = Patched(orig)

(***************************************************************************)
(* C2. When the file holds the second target, a successful run leaves the   *)
(* file with each occurrence of it replaced by the second replacement and   *)
(* every other character (occurrences of the first target aside) unchanged. *)
(* Violated for the same reason as C1.                                      *)
(***************************************************************************)
SecondTargetReplacedRestUnchanged ==
  (Succeeded /\ Contains(orig, OLD2)) => file = Patched(orig)

\* What does hold of every successful run: the one-pass patch of the text as
\* read, written with the platform's line endings.
PatchedUpToLineEndings ==
  Succeeded => file = WriteText(Patched(ReadText(orig)), linesep)

\* No placement of a target over a replacement text is consistent.
NoNewOccurrence ==
  \A t \in {OLD1, OLD2} : \A r \in {NEW1, NEW2} : ~CanOverlap(t, r)

(***************************************************************************)
(* C3. Running the script twice in succession leaves what running it once   *)
(* leaves: the second successful run ends with the file as it found it.     *)
(* And no placement of a target over a replacement text is consistent, so   *)
(* no replacement, alone or joined with the text around it, forms a new     *)
(* occurrence of a target.                                                  *)
(***************************************************************************)
RunTwiceIsRunOnce ==
  /\ (Succeeded /\ run >= 2) => file = orig
  /\ NoNewOccurrence

RunTwiceWitness ==
  /\ Succeeded
  /\ run = 2
  /\ changed
  /\ Contains(file, NEW1)
  /\ Contains(file, NEW2)

(***************************************************************************)
(* C4. When the file holds neither target, a successful run rewrites it     *)
(* with the characters it had, and the message is printed.                  *)
(* Violated: a file with a carriage return (or, where os.linesep is         *)
(* "\r\n", a line feed) is rewritten with other line endings.               *)
(***************************************************************************)
NoTargetFileUnchanged ==
  (Succeeded /\ NoTarget(orig)) => (file = orig /\ Len(out) = run)

(***************************************************************************)
(* C5. When the path does not exist at the start, the only step is the      *)
(* failing open for read: nothing is opened, read or written, no file is    *)
(* created and nothing is printed.                                          *)
(***************************************************************************)
MissingFileFails ==
  ~existed =>
    /\ ~exists
    /\ pc \in {"start", "failed"}
    /\ trace = <<>>
    /\ handles = {}
    /\ out = <<>>
    /\ pc = "start" => ~ENABLED (Step /\ pc' # "failed")

MissingFileWitness == ~existed /\ pc = "failed" /\ ~exists

(***************************************************************************)
(* C6. The message is printed exactly once by every run whose read and      *)
(* write completed, as its last step and whatever matched, and by no run    *)
(* that failed: the output holds one message per finished run, and a run    *)
(* that has printed has performed every operation and has no step left.     *)
(***************************************************************************)
MessageOnceAtTheEnd ==
  /\ Len(out) = (IF Succeeded THEN run ELSE run - 1)
  /\ \A i \in 1..Len(out) : out[i] = MSG
  /\ Succeeded => (trace = FullTrace /\ ~ENABLED Step)

MessageWitness ==
  /\ Succeeded
  /\ run = 1
  /\ out = << MSG >>
  /\ orig # <<>>
  /\ NoTarget(orig)

\* The handles and the operations performed agree with the script position.
InOrder ==
  /\ Cardinality(handles) <= 1
  /\ ("r" \in handles) <=> (pc \in {"r_open", "read"})
  /\ ("w" \in handles) <=> (pc \in {"w_open", "written"})
  /\ pc # "failed" => IsPrefix(trace, FullTrace)
  /\ pc = "failed" => trace \in FailedTraces

Terminated == pc \in {"done", "failed"}

\* How far the script has come.
Position(p) ==
  CASE p = "start" -> 0
    [] p = "r_open" -> 1
    [] p = "read" -> 2
    [] p = "r_closed" -> 3
    [] p = "sub1" -> 4
    [] p = "sub2" -> 5
    [] p = "w_open" -> 6
    [] p = "written" -> 7
    [] p = "w_closed" -> 8
    [] p \in {"done", "failed"} -> 9

\* A statement that does not fail is ready; on a missing file none can be.
CanProceed == ENABLED (Step /\ pc' # "failed") \/ ~exists

(***************************************************************************)
(* C7. The file is accessed in the order open for read, read, close, open   *)
(* for write, write, close: at most one file object is open, the read       *)
(* object is closed before the write object is opened, both substitutions   *)
(* lie between the first close and the second open, and every run that      *)
(* meets no fault terminates: until the run has ended a statement that does *)
(* not fail is ready, and each statement moves the script strictly forward. *)
(***************************************************************************)
SequentialAccess ==
  /\ [](InOrder /\ (Terminated \/ CanProceed))
  /\ [][run' = run => Position(pc') > Position(pc)]_vars

SequentialWitness ==
  /\ Succeeded
  /\ trace = FullTrace
  /\ handles = {}
  /\ file # orig

(***************************************************************************)
(* C8. After a successful run the file holds no occurrence of either        *)
(* target, however many occurrences it held and however they were placed.   *)
(***************************************************************************)
NoTargetLeft ==
  pc \in {"written", "w_closed", "done"} => NoTarget(file)

NoTargetLeftWitness ==
  /\ Succeeded
  /\ run = 1
  /\ orig = OLD1 \o OLD2 \o OLD1

(***************************************************************************)
(* C9 as stated. At every point of every run the file holds its complete    *)
(* original content or the complete patched content.                        *)
(***************************************************************************)
NeverEmptyOrPartial ==
  exists => (file = orig \/ file = Output(orig, linesep))

(***************************************************************************)
(* C9 amended. The file holds its complete original content until it is     *)
(* opened for writing and the complete patched content (the script's text, *)
(* written out) once the write has completed; between the open for write    *)
(* and the completed write it is empty, and after a failed write it is      *)
(* empty or holds a prefix of the patched content.                          *)
(***************************************************************************)
TruncateThenWrite ==
  /\ pc \in {"start", "r_open", "read", "r_closed", "sub1", "sub2"} =>
       file = orig
  /\ pc = "w_open" => file = <<>>
  /\ pc \in {"written", "w_closed", "done"} =>
       file = WriteText(content, linesep)
  /\ pc = "failed" =>
       IF \E i \in 1..Len(trace) : trace[i] = "open_w"
         THEN IsPrefix(file, WriteText(content, linesep))
         ELSE file = orig

PartialWriteWitness ==
  /\ pc = "failed"
  /\ file # <<>>
  /\ file # orig
  /\ file # WriteText(content, linesep)

\* Neither target can overlap the other or the other's replacement text.
TargetsIndependent ==
  /\ ~CanOverlap(OLD1, OLD2)
  /\ ~CanOverlap(OLD2, NEW1)
  /\ ~CanOverlap(OLD1, NEW2)

(***************************************************************************)
(* C10. The two substitutions commute: the text the script has after both   *)
(* is the text the opposite order gives, because no occurrence of one       *)
(* target can overlap an occurrence of the other and neither replacement    *)
(* text can take part in an occurrence of the other target.                 *)
(***************************************************************************)
SubstitutionsCommute ==
  /\ pc = "sub2" =>
       content = Replace(Replace(ReadText(orig), OLD2, NEW2), OLD1, NEW1)
  /\ TargetsIndependent

CommuteWitness ==
  /\ pc = "sub2"
  /\ Contains(orig, OLD1)
  /\ Contains(orig, OLD2)
  /\ ~Contains(content, OLD1)
  /\ ~Contains(content, OLD2)

====
